---- MODULE Spec2Model ----
(***************************************************************************)
(* Model of build_dependency_graph (src/main.py), the depth-bounded        *)
(* breadth-first traversal that turns a one-package dependency lookup      *)
(* into a dependency graph, together with the two dependency sources it    *)
(* reads: the fixture mapping (repository.get) and the live feed           *)
(* (get_package_dependencies).                                             *)
(*                                                                         *)
(* One action is one iteration of the `while queue` loop, or the return.   *)
(* Spec runs it for every root and repository over three package names,    *)
(* SpecWide over four names from the root "A".                             *)
(* The variables lookups, firstDepth, expanded, lastDepth and failed are   *)
(* history variables: the code does not hold them, they record what the    *)
(* run did.                                                                *)
(***************************************************************************)
EXTENDS Integers, Sequences, FiniteSets, TLC

\* Package identities: opaque strings compared by equality.
Pkgs == {"A", "B", "C", "D"}

\* The names Spec draws its arguments from; SpecWide draws them from Pkgs.
SmallPkgs == {"A", "B", "C"}

\* Longest dependency list of one package in the backing data.
MaxDeps == 2

\* Largest number of dependency entries in the backing data, all lists together.
MaxEdges == 4

\* Largest max_depth tried (Config._validate admits every integer >= 1).
MaxDepthBound == 3

VARIABLES
    start_package,  \* argument: the root package
    repository,     \* argument: the fixture dict; in live mode the feed's content behind the URL
    max_depth,      \* argument
    is_test_mode,   \* argument
    graph,          \* local: dict package -> dependency list
    visited,        \* local: set of packages
    queue,          \* local: deque of (package, depth)
    pc,             \* "loop" inside the while loop, "done" after return, "error" after a raise
    result,         \* what the caller received: the graph, or NoGraph
    lookups,        \* history: number of dependency lookups made per package
    firstDepth,     \* history: depth a package carried when it was added to visited, -1 before
    expanded,       \* history: packages in the order their lookup succeeded
    lastDepth,      \* history: depth of the entry dequeued last, -1 before the first
    failed          \* history: the package whose lookup raised, or NoPkg

vars == <<start_package, repository, max_depth, is_test_mode, graph, visited,
          queue, pc, result, lookups, firstDepth, expanded, lastDepth, failed>>

args == <<start_package, repository, max_depth, is_test_mode>>

NoGraph == "NoGraph"
NoPkg == "NoPkg"

Range(s) == {s[i] : i \in DOMAIN s}

\* The dict as it is after `graph = {}`.
EmptyGraph == [k \in {} |-> <<>>]

\* repository is one of the dicts json.load may give for the fixture file:
\* keys among S besides those of acc, each with a list of at most MaxDeps
\* names of U, at most e entries in all. A list may repeat a name and may
\* name the package it belongs to; a package may have no key at all.
RECURSIVE IsRepository(_, _, _, _)
IsRepository(S, U, e, acc) ==
    IF S = {} THEN repository = acc
    ELSE LET p == CHOOSE x \in S : TRUE
             m == IF e < MaxDeps THEN e ELSE MaxDeps
         IN \/ IsRepository(S \ {p}, U, e, acc)
            \/ \E k \in 0..m : \E l \in [1..k -> U] :
                   IsRepository(S \ {p}, U, e - k, (p :> l) @@ acc)

\* repository.get(current_package, [])
FixtureGet(repo, pkg) == IF pkg \in DOMAIN repo THEN repo[pkg] ELSE <<>>

\* The names get_package_dependencies appends to `dependencies`: every name
\* of the feed's Dependencies field except the queried package itself.
LiveNames(repo, pkg) == {d \in Range(FixtureGet(repo, pkg)) : d # pkg}

\* All orders of a set without repetition: what list(set(...)) may return.
Orderings(S) ==
    {s \in [1..Cardinality(S) -> S] : \A i, j \in DOMAIN s : s[i] = s[j] => i = j}

\* The lists a successful lookup may return for pkg.
Lookup(test, repo, pkg) ==
    IF test THEN {FixtureGet(repo, pkg)} ELSE Orderings(LiveNames(repo, pkg))

\* Variant: nothing is ever taken for visited.
AlreadyVisited_Never(pkg, vis) == FALSE

\* if current_package in visited
AlreadyVisited(pkg, vis) == pkg \in vis

\* Variant: visited.add is left out.
MarkVisited_Forgotten(vis, pkg) == vis

\* visited.add(current_package)
MarkVisited(vis, pkg) == vis \cup {pkg}

\* Variant: the depth test is `depth > max_depth`.
AtBound_OffByOne(depth, max) == depth > max

\* if depth >= max_depth
AtBound(depth, max) == depth >= max

\* Variant: the list is stored with repeated names dropped.
Record_Deduplicated(g, pkg, deps) ==
    (pkg :> SelectSeq([i \in DOMAIN deps |->
                          IF \E j \in 1..(i - 1) : deps[j] = deps[i] THEN NoPkg ELSE deps[i]],
                      LAMBDA d : d # NoPkg)) @@ g

\* graph[current_package] = dependencies
Record(g, pkg, deps) == (pkg :> deps) @@ g

\* Variant: the entries are appended in reverse.
NewEntries_Reversed(deps, vis, depth) ==
    LET keep == SelectSeq(deps, LAMBDA d : d \notin vis)
    IN [i \in 1..Len(keep) |-> <<keep[Len(keep) + 1 - i], depth + 1>>]

\* Variant: the entries carry the depth of the package that lists them.
NewEntries_SameDepth(deps, vis, depth) ==
    LET keep == SelectSeq(deps, LAMBDA d : d \notin vis)
    IN [i \in 1..Len(keep) |-> <<keep[i], depth>>]

\* for dep in dependencies: if dep not in visited: queue.append((dep, depth + 1))
NewEntries(deps, vis, depth) ==
    LET keep == SelectSeq(deps, LAMBDA d : d \notin vis)
    IN [i \in 1..Len(keep) |-> <<keep[i], depth + 1>>]

\* The state after `queue = deque([(start_package, 0)])`, for a root among
\* R and a repository over the package names U.
InitOver(R, U) ==
    /\ start_package \in R
    /\ IsRepository(U, U, MaxEdges, EmptyGraph)
    /\ max_depth \in 1..MaxDepthBound
    /\ is_test_mode \in BOOLEAN
    /\ graph = EmptyGraph
    /\ visited = {}
    /\ queue = << <<start_package, 0>> >>
    /\ pc = "loop"
    /\ result = NoGraph
    /\ lookups = [p \in Pkgs |-> 0]
    /\ firstDepth = [p \in Pkgs |-> -1]
    /\ expanded = <<>>
    /\ lastDepth = -1
    /\ failed = NoPkg

Init == InitOver(SmallPkgs, SmallPkgs)

\* Four names, root "A": the names are opaque, so every run over four names
\* is such a run up to renaming.
InitWide == InitOver({"A"}, Pkgs)

\* Loop iteration: the dequeued package is already visited (`continue`).
Skip ==
    /\ pc = "loop"
    /\ queue # <<>>
    /\ LET current_package == Head(queue)[1]
           depth == Head(queue)[2]
       IN /\ AlreadyVisited(current_package, visited)
          /\ queue' = Tail(queue)
          /\ lastDepth' = depth
    /\ UNCHANGED <<args, graph, visited, pc, result, lookups, firstDepth, expanded, failed>>

\* Variant: the package at the bound gets an empty entry in the graph.
Boundary_RecordsKey ==
    /\ pc = "loop"
    /\ queue # <<>>
    /\ LET current_package == Head(queue)[1]
           depth == Head(queue)[2]
       IN /\ ~AlreadyVisited(current_package, visited)
          /\ AtBound(depth, max_depth)
          /\ visited' = MarkVisited(visited, current_package)
          /\ firstDepth' = [firstDepth EXCEPT ![current_package] = depth]
          /\ graph' = Record(graph, current_package, <<>>)
          /\ queue' = Tail(queue)
          /\ lastDepth' = depth
    /\ UNCHANGED <<args, pc, result, lookups, expanded, failed>>

\* Variant: the depth test comes after the lookup and the enqueueing, and
\* only keeps the package out of the graph.
Boundary_Enqueues ==
    /\ pc = "loop"
    /\ queue # <<>>
    /\ LET current_package == Head(queue)[1]
           depth == Head(queue)[2]
       IN /\ ~AlreadyVisited(current_package, visited)
          /\ AtBound(depth, max_depth)
          /\ visited' = MarkVisited(visited, current_package)
          /\ firstDepth' = [firstDepth EXCEPT ![current_package] = depth]
          /\ lookups' = [lookups EXCEPT ![current_package] = @ + 1]
          /\ \E dependencies \in Lookup(is_test_mode, repository, current_package) :
                queue' = Tail(queue) \o
                    NewEntries(dependencies, MarkVisited(visited, current_package), depth)
          /\ lastDepth' = depth
    /\ UNCHANGED <<args, graph, pc, result, expanded, failed>>

\* Loop iteration: the package is marked visited and, being at depth >=
\* max_depth, is not expanded (`continue`).
Boundary ==
    /\ pc = "loop"
    /\ queue # <<>>
    /\ LET current_package == Head(queue)[1]
           depth == Head(queue)[2]
       IN /\ ~AlreadyVisited(current_package, visited)
          /\ AtBound(depth, max_depth)
          /\ visited' = MarkVisited(visited, current_package)
          /\ firstDepth' = [firstDepth EXCEPT ![current_package] = depth]
          /\ queue' = Tail(queue)
          /\ lastDepth' = depth
    /\ UNCHANGED <<args, graph, pc, result, lookups, expanded, failed>>

\* Loop iteration: the package is marked visited, its dependencies are
\* looked up and recorded, and the unvisited ones are appended to the queue.
Expand ==
    /\ pc = "loop"
    /\ queue # <<>>
    /\ LET current_package == Head(queue)[1]
           depth == Head(queue)[2]
       IN /\ ~AlreadyVisited(current_package, visited)
          /\ ~AtBound(depth, max_depth)
          /\ \E dependencies \in Lookup(is_test_mode, repository, current_package) :
                /\ graph' = Record(graph, current_package, dependencies)
                /\ queue' = Tail(queue) \o
                      NewEntries(dependencies, MarkVisited(visited, current_package), depth)
          /\ visited' = MarkVisited(visited, current_package)
          /\ firstDepth' = [firstDepth EXCEPT ![current_package] = depth]
          /\ lookups' = [lookups EXCEPT ![current_package] = @ + 1]
          /\ expanded' = Append(expanded, current_package)
          /\ lastDepth' = depth
    /\ UNCHANGED <<args, pc, result, failed>>

\* Variant: the error is caught inside the loop and the package skipped.
LookupFail_SkipAndContinue ==
    /\ pc = "loop"
    /\ queue # <<>>
    /\ ~is_test_mode
    /\ LET current_package == Head(queue)[1]
           depth == Head(queue)[2]
       IN /\ ~AlreadyVisited(current_package, visited)
          /\ ~AtBound(depth, max_depth)
          /\ visited' = MarkVisited(visited, current_package)
          /\ firstDepth' = [firstDepth EXCEPT ![current_package] = depth]
          /\ lookups' = [lookups EXCEPT ![current_package] = @ + 1]
          /\ queue' = Tail(queue)
          /\ lastDepth' = depth
          /\ failed' = current_package
    /\ UNCHANGED <<args, graph, pc, result, expanded>>

\* Loop iteration in live mode: get_package_dependencies raises ValueError,
\* which leaves build_dependency_graph; main reports it and exits.
LookupFail ==
    /\ pc = "loop"
    /\ queue # <<>>
    /\ ~is_test_mode
    /\ LET current_package == Head(queue)[1]
           depth == Head(queue)[2]
       IN /\ ~AlreadyVisited(current_package, visited)
          /\ ~AtBound(depth, max_depth)
          /\ visited' = MarkVisited(visited, current_package)
          /\ firstDepth' = [firstDepth EXCEPT ![current_package] = depth]
          /\ lookups' = [lookups EXCEPT ![current_package] = @ + 1]
          /\ queue' = Tail(queue)
          /\ lastDepth' = depth
          /\ failed' = current_package
    /\ pc' = "error"
    /\ UNCHANGED <<args, graph, result, expanded>>

\* The queue is empty: `return graph`.
Return ==
    /\ pc = "loop"
    /\ queue = <<>>
    /\ pc' = "done"
    /\ result' = graph
    /\ UNCHANGED <<args, graph, visited, queue, lookups, firstDepth, expanded, lastDepth, failed>>

Next == Skip \/ Boundary \/ Expand \/ LookupFail \/ Return

Spec == Init /\ [][Next]_vars

\* The interpreter keeps running the loop: some step is taken while one is possible.
FairSpec == Spec /\ WF_vars(Next)

\* The same program over four package names.
SpecWide == InitWide /\ [][Next]_vars

(***************************************************************************)
(* Shortest-path distance in the source's dependency relation              *)
(***************************************************************************)

\* The packages the source names as dependencies of pkg.
DepSet(pkg) ==
    IF is_test_mode THEN Range(FixtureGet(repository, pkg)) ELSE LiveNames(repository, pkg)

\* The packages whose shortest-path distance from start_package is <= k.
RECURSIVE Within(_)
Within(k) ==
    IF k = 0 THEN {start_package}
    ELSE LET W == Within(k - 1) IN W \cup UNION {DepSet(p) : p \in W}

\* The packages at distance exactly k.
AtDistance(k) == IF k = 0 THEN {start_package} ELSE Within(k) \ Within(k - 1)

Keys == DOMAIN graph

NoDuplicates(s) == \A i, j \in DOMAIN s : s[i] = s[j] => i = j

\* Position of a package in the expansion order, 0 when it was not expanded.
ExpandedAt(p) ==
    IF p \in Range(expanded) THEN CHOOSE i \in DOMAIN expanded : expanded[i] = p ELSE 0

(***************************************************************************)
(* C1                                                                      *)
(***************************************************************************)

\* C1: on every dependency relation, cyclic or not, with every root and every
\* max_depth >= 1, the run leaves the loop (it returns, unless a lookup
\* raised), and no package is expanded, hence made a key, more than once.
C1_Terminates ==
    /\ <>(pc = "done" \/ pc = "error")
    /\ [](NoDuplicates(expanded) /\ Range(expanded) = Keys)

\* A run over a cycle A -> B -> A (or a self-loop) that has returned.
C1_Witness ==
    /\ pc = "done"
    /\ \E a, b \in Keys : a # b /\ b \in DepSet(a) /\ a \in DepSet(b)

(***************************************************************************)
(* C2                                                                      *)
(***************************************************************************)

\* C2: between loop iterations and after the return, a package is a key of
\* the graph exactly when it is visited and was first dequeued at a depth
\* below max_depth; the caller receives that graph.
C2_KeyIffExpanded ==
    /\ pc \in {"loop", "done"} =>
          \A p \in Pkgs : p \in Keys <=> (p \in visited /\ firstDepth[p] < max_depth)
    /\ pc = "done" => result = graph

\* Some visited package is a key and another, first dequeued at the bound,
\* is visited without being a key although the source lists dependencies for it.
C2_Witness ==
    /\ pc = "done"
    /\ \E p, q \in visited :
          /\ p \in Keys
          /\ q \notin Keys
          /\ firstDepth[q] >= max_depth
          /\ DepSet(q) # {}

(***************************************************************************)
(* C3                                                                      *)
(***************************************************************************)

\* C3: the lookup is made at most once per package, however many packages
\* list it and however often it was enqueued (exactly once for every key),
\* and never for a package that was dequeued at depth >= max_depth.
C3_LookupAtMostOnce ==
    \A p \in Pkgs :
        /\ lookups[p] <= 1
        /\ p \in Keys => lookups[p] = 1
        /\ lookups[p] = 1 => (p \in visited /\ firstDepth[p] < max_depth)
        /\ (p \in visited /\ firstDepth[p] >= max_depth) => lookups[p] = 0

\* The diamond App -> {Lib1, Lib2} -> Core has been traversed: Core, listed
\* by both Lib1 and Lib2 and enqueued by both, was looked up once.
C3_Witness ==
    /\ pc = "done"
    /\ \E lib1, lib2, core \in Pkgs \ {start_package} :
          /\ lib1 # lib2 /\ lib1 # core /\ lib2 # core
          /\ result = [k \in {start_package, lib1, lib2, core} |->
                          IF k = start_package THEN <<lib1, lib2>>
                          ELSE IF k = core THEN <<>> ELSE <<core>>]
          /\ lookups[core] = 1

(***************************************************************************)
(* C4                                                                      *)
(***************************************************************************)

\* C4: a package first dequeued at depth = max_depth is visited but not
\* expanded: it is no key, it is never looked up, and nothing is enqueued on
\* its account (no queue entry is deeper than max_depth). With max_depth = 1
\* and a root R whose dependency list is [D], D another package, the result
\* is exactly {R: [D]} and D is visited.
C4_BoundaryNotExpanded ==
    /\ \A p \in Pkgs :
          firstDepth[p] = max_depth =>
              /\ p \in visited
              /\ p \notin Keys
              /\ lookups[p] = 0
    /\ \A i \in DOMAIN queue : queue[i][2] <= max_depth
    /\ \A d \in Pkgs :
          ( /\ pc = "done"
            /\ max_depth = 1
            /\ d # start_package
            /\ Lookup(is_test_mode, repository, start_package) = {<<d>>} )
          => /\ result = (start_package :> <<d>>)
             /\ d \in visited
             /\ d \notin DOMAIN result

\* max_depth = 1, the root's list is [D], and D has dependencies of its own.
C4_Witness ==
    /\ pc = "done"
    /\ max_depth = 1
    /\ \E d \in Pkgs :
          /\ d # start_package
          /\ Lookup(is_test_mode, repository, start_package) = {<<d>>}
          /\ firstDepth[d] = max_depth
          /\ DepSet(d) \ {d, start_package} # {}

(***************************************************************************)
(* C5                                                                      *)
(***************************************************************************)

\* C5: once a lookup has raised, the run is over: nothing more is dequeued
\* or looked up, the failed lookup was made once and its package is no key,
\* and the caller has the error and no graph.
C5_FailFast ==
    /\ [](pc = "error" =>
            /\ result = NoGraph
            /\ failed \in Pkgs
            /\ lookups[failed] = 1
            /\ failed \notin Keys)
    /\ [](failed # NoPkg => pc = "error")
    /\ [][pc = "error" => UNCHANGED vars]_vars

\* A lookup fails after entries were accumulated and with work still queued.
C5_Witness ==
    /\ pc = "error"
    /\ Keys # {}
    /\ queue # <<>>

(***************************************************************************)
(* C6                                                                      *)
(***************************************************************************)

\* C6: with either source, no key of the graph lists itself among its
\* dependencies; from root A over the fixture {"A": ["A"]} the result is
\* {"A": []}.
C6_NoSelfDependency ==
    /\ \A k \in Keys : k \notin Range(graph[k])
    /\ ( /\ pc = "done"
         /\ is_test_mode
         /\ start_package = "A"
         /\ repository = ("A" :> <<"A">>) )
       => result = ("A" :> <<>>)

(***************************************************************************)
(* C7                                                                      *)
(***************************************************************************)

\* C7: every key's entry is the list the source gives for it, element for
\* element: in fixture mode the mapping's entry, or the empty list when the
\* mapping has no such key; in live mode an ordering of the names the feed
\* lists. The fixture never makes a lookup fail.
C7_EntryIsSourceList ==
    /\ \A k \in Keys :
          /\ graph[k] \in Lookup(is_test_mode, repository, k)
          /\ is_test_mode => graph[k] = FixtureGet(repository, k)
          /\ (is_test_mode /\ k \notin DOMAIN repository) => graph[k] = <<>>
    /\ is_test_mode => pc # "error"
    /\ pc = "done" => result = graph

\* Fixture mode: a key without an entry in the mapping is present with [],
\* a key has a two-element list, and a package the mapping has an entry for
\* was never expanded and is absent.
C7_Witness ==
    /\ pc = "done"
    /\ is_test_mode
    /\ \E k \in DOMAIN result : k \notin DOMAIN repository /\ result[k] = <<>>
    /\ \E k \in DOMAIN result : Len(result[k]) = 2
    /\ \E p \in DOMAIN repository : p \notin DOMAIN result

(***************************************************************************)
(* C8                                                                      *)
(***************************************************************************)

\* C8 as stated: a package whose distance from the root equals max_depth is
\* still looked up and is a key of the result.
C8_Original ==
    pc = "done" =>
        \A p \in AtDistance(max_depth) : p \in DOMAIN result /\ lookups[p] = 1

\* C8 amended: max_depth is exclusive. The largest distance at which a
\* package is expanded is max_depth - 1; a package at distance max_depth is
\* visited, is not looked up and is no key of the result.
C8_DepthBoundExclusive ==
    pc = "done" =>
        /\ \A p \in AtDistance(max_depth) :
              p \in visited /\ lookups[p] = 0 /\ p \notin DOMAIN result
        /\ \A p \in AtDistance(max_depth - 1) :
              lookups[p] = 1 /\ p \in DOMAIN result
        /\ \A p \in DOMAIN result : firstDepth[p] <= max_depth - 1

\* A run with max_depth >= 2 in which a package at distance max_depth has
\* dependencies of its own.
C8_Witness ==
    /\ pc = "done"
    /\ max_depth >= 2
    /\ \E p \in AtDistance(max_depth) : DepSet(p) # {}

(***************************************************************************)
(* C9                                                                      *)
(***************************************************************************)

\* Every queue entry has the depth of the front entry or one more, lower
\* depths first, and none is shallower than the entry dequeued last.
QueueInDepthOrder ==
    \A i \in DOMAIN queue :
        /\ queue[i][2] \in {Head(queue)[2], Head(queue)[2] + 1}
        /\ i > 1 => queue[i - 1][2] <= queue[i][2]
        /\ lastDepth <= queue[i][2]

\* A step that expands a package appends its not yet visited dependencies
\* behind the waiting entries, in the order of the recorded list, one level
\* deeper; every other step only removes the front entry.
EnqueuedInSourceOrder ==
    queue' # queue =>
        /\ lastDepth' = Head(queue)[2]
        /\ lastDepth <= lastDepth'
        /\ IF expanded' # expanded
           THEN LET p == Head(queue)[1]
                    new == SelectSeq(graph'[p], LAMBDA d : d \notin visited')
                IN /\ Len(queue') = Len(queue) - 1 + Len(new)
                   /\ \A i \in 1..(Len(queue) - 1) : queue'[i] = queue[i + 1]
                   /\ \A i \in DOMAIN new :
                         queue'[Len(queue) - 1 + i] = <<new[i], lastDepth' + 1>>
           ELSE queue' = Tail(queue)

\* Index of the first occurrence of d in the list s.
FirstIndex(s, d) == CHOOSE i \in DOMAIN s : s[i] = d /\ \A j \in 1..(i - 1) : s[j] # d

\* Two dependencies of one package that were both still unvisited when it
\* was expanded, and both expanded later, were expanded in list order.
ExpandedInSourceOrder ==
    \A a \in Keys : \A x, y \in Range(graph[a]) \cap Range(expanded) :
        ( /\ ExpandedAt(a) < ExpandedAt(x)
          /\ ExpandedAt(a) < ExpandedAt(y)
          /\ FirstIndex(graph[a], x) < FirstIndex(graph[a], y) )
        => ExpandedAt(x) < ExpandedAt(y)

\* C9 as stated: breadth-first order of the queue and of the dequeued
\* depths, dependencies enqueued in source order, and hence expanded in
\* source order.
C9_Original ==
    /\ []QueueInDepthOrder
    /\ [][EnqueuedInSourceOrder]_vars
    /\ []ExpandedInSourceOrder

\* C9 amended: breadth-first order of the queue and of the dequeued depths;
\* the not yet visited dependencies of a package are enqueued in source
\* order behind the waiting entries, which are dequeued first in, first out.
\* The order in which they are expanded need not be the source order: a
\* dependency that another package enqueued earlier is expanded from that
\* earlier entry.
C9_BreadthFirst ==
    /\ []QueueInDepthOrder
    /\ [][EnqueuedInSourceOrder]_vars

\* A package listed second by one package was enqueued earlier by another
\* and is expanded before the package listed first.
C9_Witness ==
    \E a \in Keys : \E x, y \in Range(graph[a]) \cap Range(expanded) :
        /\ ExpandedAt(a) < ExpandedAt(x)
        /\ ExpandedAt(a) < ExpandedAt(y)
        /\ FirstIndex(graph[a], x) < FirstIndex(graph[a], y)
        /\ ExpandedAt(y) < ExpandedAt(x)

(***************************************************************************)
(* C10                                                                     *)
(***************************************************************************)

\* C10: when the run returns, the keys of the result are exactly the
\* packages at distance < max_depth from the root (the root among them) and
\* the visited set is exactly the packages at distance <= max_depth; each
\* was first dequeued at its distance.
C10_KeysAreBall ==
    pc = "done" =>
        /\ DOMAIN result = Within(max_depth - 1)
        /\ visited = Within(max_depth)
        /\ start_package \in DOMAIN result
        /\ \A p \in visited : p \in AtDistance(firstDepth[p])

\* A package is a dependency of a package expanded at depth max_depth - 1,
\* so that an entry for it reached the bound, and is a key all the same,
\* being at distance 1 from the root.
C10_Witness ==
    /\ pc = "done"
    /\ max_depth = 2
    /\ \E p, q \in DOMAIN result :
          /\ p # q
          /\ p \in DepSet(q)
          /\ firstDepth[q] = max_depth - 1
          /\ firstDepth[p] = 1

====
